---------------------------- MODULE Spec2Model ----------------------------
(***************************************************************************)
(* A model of vivaldi-color-tabs: the three variants of the color_tabs     *)
(* script (src/unnamed/part_000, src/unnamed/part_001, src/color_tabs.js). *)
(*                                                                         *)
(* Part 1 models #getPalette (the same text in the three files).           *)
(* Part 2 models the chroma.js colour operations the script calls.         *)
(* Part 3 models the recompute pass (#colorTabs / #setTabColor) as a state *)
(* machine over the tab strip, the theme and the in-flight passes.         *)
(***************************************************************************)
EXTENDS Integers, Sequences, FiniteSets, TLC

VARIABLES
    palImage,     \* the image handed to #getPalette
    palResult,    \* what #getPalette produced for it
    variant,      \* which of the three script files runs
    theme,        \* the current theme of the preference store
    tabs,         \* the tab strip: each div.tab's active class, url and img
    chrome,       \* the browser's tabs: which div.tab is a stack, the window
    style,        \* each div.tab's inline backgroundColor and color
    browserStyle, \* the accent custom properties on #browser's inline style
    passes,       \* the #colorTabs calls made so far and where each stands
    timers,       \* the setTimeout callbacks armed and not yet run
    events,       \* how many browser events have happened
    last,         \* the handler step that ran last (history)
    snap,         \* what the first completed pass left (history)
    now,          \* time since the script was loaded, in poll periods
    poll,         \* where the start-up polling stands
    dom,          \* which elements the document holds at start-up
    made          \* the constructor runs so far and what they left

palVars == <<palImage, palResult>>
tabVars == <<variant, theme, tabs, chrome, style, browserStyle, passes, timers,
             events, last, snap>>
startVars == <<now, poll, dom, made>>
vars == <<palImage, palResult, variant, theme, tabs, chrome, style, browserStyle,
          passes, timers, events, last, snap, now, poll, dom, made>>

Min(a, b) == IF a < b THEN a ELSE b
Max(a, b) == IF a > b THEN a ELSE b

(***************************************************************************)
(* Part 1: #getPalette                                                     *)
(*                                                                         *)
(* A pixel is <<red, green, blue, alpha>>, an image is its width, height   *)
(* and the row-major pixel data getImageData returns for it.               *)
(***************************************************************************)

\* bounds of the images the palette specification draws
MaxPixels == 4
MaxColors == 12
MaxTail == 2

\* the length of the palette cut (Math.min(10, colorPalette.length))
TopColorsLimit == 10
\* the near-white threshold (red > 240 && green > 240 && blue > 240)
NearWhite == 240

\* the filter, were transparent pixels left out as well
IsSkippedTransparent(px) ==
    \/ px[1] = 0
    \/ (px[1] > NearWhite /\ px[2] > NearWhite /\ px[3] > NearWhite)
    \/ px[4] = 0

\* if (!(red === 0 || red > 240 && green > 240 && blue > 240)): the pixels
\* the scan leaves out
IsSkipped(px) ==
    \/ px[1] = 0
    \/ (px[1] > NearWhite /\ px[2] > NearWhite /\ px[3] > NearWhite)

\* the inner for loop: the index of the entry with this pixel's (R,G,B), or
\* 0 for colorIndex === undefined
RECURSIVE FindColor(_, _, _)
FindColor(colorPalette, px, i) ==
    IF i > Len(colorPalette) THEN 0
    ELSE IF /\ px[1] = colorPalette[i][1]
            /\ px[2] = colorPalette[i][2]
            /\ px[3] = colorPalette[i][3]
         THEN i
         ELSE FindColor(colorPalette, px, i + 1)

\* one iteration of the pixel loop
ScanPixel(colorPalette, px) ==
    IF IsSkipped(px) THEN colorPalette
    ELSE LET colorIndex == FindColor(colorPalette, px, 1)
         IN  IF colorIndex = 0
             THEN Append(colorPalette, <<px[1], px[2], px[3], 1>>)
             ELSE [colorPalette EXCEPT ![colorIndex][4] = @ + 1]

\* for (pixelIndex = 0; pixelIndex < pixelCount; pixelIndex++)
RECURSIVE ScanPixels(_, _, _)
ScanPixels(pixelData, pixelIndex, colorPalette) ==
    IF pixelIndex > Len(pixelData) THEN colorPalette
    ELSE ScanPixels(pixelData, pixelIndex + 1,
                    ScanPixel(colorPalette, pixelData[pixelIndex]))

\* the comparator of colorPalette.sort: (a, b) => b[3] - a[3]
CompareAscending(a, b) == a[4] - b[4]
Compare(a, b) == b[4] - a[4]

\* Array.prototype.sort is stable (ECMAScript 2019; the private methods of
\* the class need an engine that is newer): an element is placed after every
\* element the comparator does not order after it.
RECURSIVE InsertPosUnstable(_, _, _)
InsertPosUnstable(sorted, e, i) ==
    IF i > Len(sorted) THEN i
    ELSE IF Compare(sorted[i], e) >= 0 THEN i
         ELSE InsertPosUnstable(sorted, e, i + 1)

RECURSIVE InsertPos(_, _, _)
InsertPos(sorted, e, i) ==
    IF i > Len(sorted) THEN i
    ELSE IF Compare(sorted[i], e) > 0 THEN i
         ELSE InsertPos(sorted, e, i + 1)

RECURSIVE SortFrom(_, _, _)
SortFrom(arr, i, sorted) ==
    IF i > Len(arr) THEN sorted
    ELSE LET p == InsertPos(sorted, arr[i], 1)
         IN  SortFrom(arr, i + 1,
                      SubSeq(sorted, 1, p - 1) \o <<arr[i]>>
                          \o SubSeq(sorted, p, Len(sorted)))

Sort(colorPalette) == SortFrom(colorPalette, 1, <<>>)

\* colorPalette.slice(0, Math.min(10, colorPalette.length))
topColorsUncut(sorted) == sorted
topColors(sorted) == SubSeq(sorted, 1, Min(TopColorsLimit, Len(sorted)))

\* context.getImageData(0, 0, w, h) raises IndexSizeError when w or h is 0
GetImageDataThrows(image) == image.width = 0 \/ image.height = 0

Threw == [status |-> "threw"]
Returned(palette) == [status |-> "ok", palette |-> palette]

getPalette(image) ==
    IF GetImageDataThrows(image) THEN Threw
    ELSE LET colorPalette == ScanPixels(image.data, 1, <<>>)
             top == topColors(Sort(colorPalette))
         IN  Returned([i \in 1..Len(top) |-> <<top[i][1], top[i][2], top[i][3]>>])

(***************************************************************************)
(* Part 2: the chroma.js operations the script calls.                      *)
(*                                                                         *)
(* A colour is <<r, g, b>> with each channel in half units (0..510): the   *)
(* channels chroma keeps are the integers 0..255 and, after hsl2rgb with   *)
(* saturation 0, the unrounded l*255, a multiple of 1/2.  A rational is    *)
(* <<numerator, denominator>>.  An hsl value is the hue in sextants        *)
(* (hue/60) as a rational, <<0, 0>> for NaN, the saturation as a rational  *)
(* and the lightness in units of 1/1020.                                   *)
(***************************************************************************)

\* chroma([r, g, b]), chroma('#rrggbb')
Chroma(rgb) == <<2 * rgb[1], 2 * rgb[2], 2 * rgb[3]>>

WHITE == Chroma(<<255, 255, 255>>)
BLACK == Chroma(<<0, 0, 0>>)

Max3(c) == Max(c[1], Max(c[2], c[3]))
Min3(c) == Min(c[1], Min(c[2], c[3]))

\* chroma's rgb2hsl
Rgb2Hsl(c) ==
    LET mx == Max3(c)
        mn == Min3(c)
        L == mx + mn
        d == mx - mn
        h0 == IF c[1] = mx THEN c[2] - c[3]
              ELSE IF c[2] = mx THEN 2 * d + c[3] - c[1]
              ELSE 4 * d + c[1] - c[2]
    IN  [h |-> IF d = 0 THEN <<0, 0>>
               ELSE <<IF h0 < 0 THEN h0 + 6 * d ELSE h0, d>>,
         s |-> IF d = 0 THEN <<0, 1>>
               ELSE IF L < 510 THEN <<d, L>> ELSE <<d, 1020 - L>>,
         l |-> L]

\* Math.round of n/d for n >= 0, d > 0
RoundDiv(n, d) == (2 * n + d) \div (2 * d)

\* chroma's hsl2rgb: one channel, k the third of a turn added to the hue
HslChannel(hsl, T1, T2, k) ==
    LET hd == hsl.h[2]
        sd == hsl.s[2]
        X0 == hsl.h[1] + 2 * hd * k
        X == IF X0 < 0 THEN X0 + 6 * hd
             ELSE IF X0 > 6 * hd THEN X0 - 6 * hd ELSE X0
        N == IF hd = 0 THEN T1
             ELSE IF X < hd THEN T1 * hd + (T2 - T1) * X
             ELSE IF X < 3 * hd THEN T2 * hd
             ELSE IF X < 4 * hd THEN T1 * hd + (T2 - T1) * (4 * hd - X)
             ELSE T1 * hd
    IN  2 * RoundDiv(N, 4 * sd * (IF hd = 0 THEN 1 ELSE hd))

Hsl2Rgb(hsl) ==
    IF hsl.s[1] = 0
    THEN <<hsl.l \div 2, hsl.l \div 2, hsl.l \div 2>>
    ELSE LET sn == hsl.s[1]
             sd == hsl.s[2]
             L == hsl.l
             T2 == IF L < 510 THEN L * (sd + sn)
                   ELSE L * sd + 1020 * sn - L * sn
             T1 == 2 * L * sd - T2
         IN  <<HslChannel(hsl, T1, T2, 1), HslChannel(hsl, T1, T2, 0),
               HslChannel(hsl, T1, T2, -1)>>

\* color.get('hsl.s')
GetSaturation(c) == Rgb2Hsl(c).s

\* color.set('hsl.s', s)
SetSaturation(c, s) == Hsl2Rgb([Rgb2Hsl(c) EXCEPT !.s = s])

\* the product of two rationals
Times(p, q) == <<p[1] * q[1], p[2] * q[2]>>

\* chroma's luminance_x, times 100000, of the channel values 0, 1/2, ..., 255
LuminanceX ==
    <<
       0, 15, 30, 46, 61, 76, 91, 106, 121, 137, 152, 167,
       182, 197, 212, 228, 243, 258, 273, 288, 304, 319, 335, 351,
       368, 385, 402, 421, 439, 458, 478, 498, 518, 539, 561, 582,
       605, 628, 651, 675, 700, 724, 750, 776, 802, 829, 857, 885,
       913, 942, 972, 1002, 1033, 1064, 1096, 1128, 1161, 1195, 1229, 1263,
       1298, 1334, 1370, 1407, 1444, 1482, 1521, 1560, 1600, 1640, 1681, 1722,
       1764, 1807, 1850, 1894, 1938, 1983, 2029, 2075, 2122, 2169, 2217, 2266,
       2315, 2365, 2416, 2467, 2519, 2571, 2624, 2678, 2732, 2787, 2843, 2899,
       2956, 3013, 3071, 3130, 3190, 3250, 3310, 3372, 3434, 3497, 3560, 3624,
       3689, 3754, 3820, 3887, 3955, 4023, 4092, 4161, 4231, 4302, 4374, 4446,
       4519, 4592, 4667, 4741, 4817, 4894, 4971, 5048, 5127, 5206, 5286, 5367,
       5448, 5530, 5613, 5696, 5781, 5865, 5951, 6038, 6125, 6212, 6301, 6390,
       6480, 6571, 6663, 6755, 6848, 6942, 7036, 7131, 7227, 7324, 7421, 7520,
       7619, 7718, 7819, 7920, 8022, 8125, 8228, 8333, 8438, 8543, 8650, 8757,
       8866, 8974, 9084, 9195, 9306, 9418, 9531, 9644, 9759, 9874, 9990, 10107,
       10224, 10343, 10462, 10582, 10702, 10824, 10946, 11069, 11193, 11318, 11444, 11570,
       11697, 11825, 11954, 12083, 12214, 12345, 12477, 12610, 12744, 12878, 13014, 13150,
       13287, 13425, 13563, 13703, 13843, 13984, 14126, 14269, 14413, 14557, 14703, 14849,
       14996, 15144, 15293, 15442, 15593, 15744, 15896, 16049, 16203, 16358, 16513, 16670,
       16827, 16985, 17144, 17304, 17465, 17626, 17789, 17952, 18116, 18282, 18447, 18614,
       18782, 18951, 19120, 19291, 19462, 19634, 19807, 19981, 20156, 20331, 20508, 20685,
       20864, 21043, 21223, 21404, 21586, 21769, 21953, 22137, 22323, 22509, 22697, 22885,
       23074, 23264, 23455, 23647, 23840, 24033, 24228, 24424, 24620, 24818, 25016, 25215,
       25415, 25616, 25818, 26021, 26225, 26430, 26636, 26842, 27050, 27258, 27468, 27678,
       27889, 28102, 28315, 28529, 28744, 28960, 29177, 29395, 29614, 29834, 30054, 30276,
       30499, 30722, 30947, 31172, 31399, 31626, 31855, 32084, 32314, 32546, 32778, 33011,
       33245, 33480, 33716, 33953, 34191, 34430, 34670, 34911, 35153, 35396, 35640, 35885,
       36131, 36377, 36625, 36874, 37124, 37374, 37626, 37879, 38133, 38387, 38643, 38900,
       39157, 39416, 39676, 39936, 40198, 40460, 40724, 40989, 41254, 41521, 41789, 42057,
       42327, 42597, 42869, 43142, 43415, 43690, 43966, 44242, 44520, 44799, 45079, 45359,
       45641, 45924, 46208, 46493, 46778, 47065, 47353, 47642, 47932, 48223, 48515, 48808,
       49102, 49397, 49693, 49990, 50289, 50588, 50888, 51189, 51492, 51795, 52100, 52405,
       52712, 53019, 53328, 53637, 53948, 54260, 54572, 54886, 55201, 55517, 55834, 56152,
       56471, 56791, 57112, 57435, 57758, 58082, 58408, 58734, 59062, 59390, 59720, 60051,
       60383, 60716, 61050, 61385, 61721, 62058, 62396, 62735, 63076, 63417, 63760, 64103,
       64448, 64794, 65141, 65488, 65837, 66188, 66539, 66891, 67244, 67599, 67954, 68311,
       68669, 69027, 69387, 69748, 70110, 70473, 70838, 71203, 71569, 71937, 72306, 72675,
       73046, 73418, 73791, 74165, 74540, 74917, 75294, 75673, 76052, 76433, 76815, 77198,
       77582, 77967, 78354, 78741, 79130, 79519, 79910, 80302, 80695, 81089, 81485, 81881,
       82279, 82677, 83077, 83478, 83880, 84283, 84687, 85093, 85499, 85907, 86316, 86726,
       87137, 87549, 87962, 88377, 88792, 89209, 89627, 90046, 90466, 90887, 91310, 91733,
       92158, 92584, 93011, 93439, 93869, 94299, 94731, 95163, 95597, 96032, 96469, 96906,
       97345, 97784, 98225, 98667, 99110, 99555, 100000
    >>

\* color.luminance(), times 10^9
Luminance(c) ==
    2126 * LuminanceX[c[1] + 1] + 7152 * LuminanceX[c[2] + 1]
        + 722 * LuminanceX[c[3] + 1]

\* color.css() of an opaque colour: the channels rounded
Css(c) == [kind |-> "rgb", r |-> (c[1] + 1) \div 2, g |-> (c[2] + 1) \div 2,
           b |-> (c[3] + 1) \div 2]

(***************************************************************************)
(* The images of the palette specification: every row of at most MaxPixels *)
(* pixels over PixelValues, the image of no pixels, and rows of up to        *)
(* MaxColors distinct colours followed by at most MaxTail repeats.         *)
(***************************************************************************)
PixelValues ==
    { <<0, 255, 0, 255>>,        \* red channel 0
      <<250, 250, 250, 255>>,    \* near-white
      <<255, 0, 0, 255>>,
      <<241, 241, 240, 255>>,    \* one channel at the threshold
      <<10, 20, 200, 0>> }       \* alpha 0, red >= 1

Shade(i) == <<10 * i, i, 7, 255>>

SeqsUpTo(S, n) == UNION { [1..k -> S] : k \in 0..n }

Row(data) == [width |-> Len(data), height |-> IF Len(data) = 0 THEN 0 ELSE 1,
              data |-> data]

SmallImages == { Row(d) : d \in SeqsUpTo(PixelValues, MaxPixels) }

ManyImages ==
    UNION { { Row([i \in 1..k |-> Shade(i)] \o tail) :
                tail \in SeqsUpTo({ Shade(i) : i \in 1..k }, MaxTail) } :
            k \in (MaxColors - 3)..MaxColors }

Images == SmallImages \cup ManyImages

NotRun == [status |-> "none"]

\* the tab strip plays no part in the palette specification
NoTabStrip ==
    /\ variant = "part_000"
    /\ theme = <<>>
    /\ tabs = <<>>
    /\ chrome = <<>>
    /\ style = <<>>
    /\ browserStyle = <<>>
    /\ passes = <<>>
    /\ timers = 0
    /\ events = 0
    /\ last = <<>>
    /\ snap = <<>>

\* the start-up polling is over before the palette and the tab strip are
\* looked at
NoStartup ==
    /\ now = 0
    /\ poll = <<>>
    /\ dom = <<>>
    /\ made = <<>>

PalInit ==
    /\ palImage \in Images
    /\ palResult = NotRun
    /\ NoTabStrip
    /\ NoStartup

\* const palette = this.#getPalette(image)
CallGetPalette ==
    /\ palResult = NotRun
    /\ palResult' = getPalette(palImage)
    /\ UNCHANGED <<palImage, tabVars, startVars>>

PalNext == CallGetPalette

SpecPalette == PalInit /\ [][PalNext]_vars

(***************************************************************************)
(* Claims about #getPalette, stated on the image and the returned palette. *)
(***************************************************************************)
Rgb(px) == <<px[1], px[2], px[3]>>

\* a pixel that is neither the red-0 sentinel nor near-white
Qualifying(px) == px[1] # 0 /\ ~(px[1] > 240 /\ px[2] > 240 /\ px[3] > 240)

QualifyingColors(data) ==
    { Rgb(data[i]) : i \in { j \in DOMAIN data : Qualifying(data[j]) } }

PixelCountOf(data, c) == Cardinality({ i \in DOMAIN data : Rgb(data[i]) = c })

FirstSeen(data, c) ==
    CHOOSE i \in DOMAIN data :
        Rgb(data[i]) = c /\ \A j \in 1..(i - 1) : Rgb(data[j]) # c

InPalette(p) == { p[i] : i \in DOMAIN p }

\* C4: the returned colours are qualifying colours of the bitmap ranked by
\* pixel count, highest first: a colour with a higher count is at a lower
\* index, and no qualifying colour left out has a strictly higher count than
\* a returned one.
PaletteRankedByCount ==
    palResult.status = "ok" =>
        LET p == palResult.palette
            data == palImage.data
        IN  /\ InPalette(p) \subseteq QualifyingColors(data)
            /\ \A i, j \in DOMAIN p :
                   PixelCountOf(data, p[i]) > PixelCountOf(data, p[j]) => i < j
            /\ \A c \in QualifyingColors(data) \ InPalette(p) :
                   \A i \in DOMAIN p :
                       PixelCountOf(data, c) <= PixelCountOf(data, p[i])

\* a palette whose most frequent colour was not the first one scanned, with
\* qualifying colours cut off
PaletteRankedWitness ==
    /\ palResult.status = "ok"
    /\ Len(palResult.palette) >= 2
    /\ QualifyingColors(palImage.data) \ InPalette(palResult.palette) # {}
    /\ PixelCountOf(palImage.data, palResult.palette[1])
           > PixelCountOf(palImage.data, palResult.palette[2])
    /\ FirstSeen(palImage.data, palResult.palette[1])
           > FirstSeen(palImage.data, palResult.palette[2])

\* C5: the palette has exactly min(10, number of distinct qualifying
\* colours) entries, never more than 10, each a distinct (R,G,B) triple of a
\* pixel of the bitmap.
PaletteAtMostTen ==
    palResult.status = "ok" =>
        LET p == palResult.palette
            data == palImage.data
            n == Cardinality(QualifyingColors(data))
        IN  /\ Len(p) <= 10
            /\ Len(p) = (IF n < 10 THEN n ELSE 10)
            /\ \A i, j \in DOMAIN p : p[i] = p[j] => i = j
            /\ \A i \in DOMAIN p : \E k \in DOMAIN data : Rgb(data[k]) = p[i]

\* a bitmap of more than 10 distinct qualifying colours was processed
PaletteCutWitness ==
    /\ palResult.status = "ok"
    /\ Cardinality(QualifyingColors(palImage.data)) > 10

AllFiltered(image) == \A i \in DOMAIN image.data : ~Qualifying(image.data[i])

\* C6: for any bitmap, the 0-pixel one included, whose pixels are all
\* near-white or have red 0, #getPalette returns the empty sequence.
AllFilteredGivesEmpty ==
    (palResult # NotRun /\ AllFiltered(palImage)) => palResult = Returned(<<>>)

\* the part of C6 the code keeps: a bitmap of at least one pixel, all of
\* them filtered, gives the empty sequence
AllFilteredNonEmptyGivesEmpty ==
    (palResult # NotRun /\ AllFiltered(palImage) /\ Len(palImage.data) > 0)
        => palResult = Returned(<<>>)

\* C7: colours of equal count keep the order in which their first pixel was
\* scanned, in the result and across the cut to 10.
PaletteTiesFirstSeen ==
    palResult.status = "ok" =>
        LET p == palResult.palette
            data == palImage.data
        IN  /\ \A i, j \in DOMAIN p :
                   (i < j /\ PixelCountOf(data, p[i]) = PixelCountOf(data, p[j]))
                       => FirstSeen(data, p[i]) < FirstSeen(data, p[j])
            /\ \A c \in QualifyingColors(data) \ InPalette(p) :
                   \A i \in DOMAIN p :
                       PixelCountOf(data, c) = PixelCountOf(data, p[i])
                           => FirstSeen(data, p[i]) < FirstSeen(data, c)

\* equally frequent colours on both sides of the cut, after a colour that
\* was scanned later but counted more often
PaletteTiesWitness ==
    /\ palResult.status = "ok"
    /\ Len(palResult.palette) = 10
    /\ \E c \in QualifyingColors(palImage.data) \ InPalette(palResult.palette) :
           PixelCountOf(palImage.data, c)
               = PixelCountOf(palImage.data, palResult.palette[10])
    /\ PixelCountOf(palImage.data, palResult.palette[9])
           = PixelCountOf(palImage.data, palResult.palette[10])
    /\ PixelCountOf(palImage.data, palResult.palette[1])
           > PixelCountOf(palImage.data, palResult.palette[2])

\* C19: #getPalette leaves a pixel out exactly when its red is 0 or its
\* red, green and blue are all above 240, and never reads alpha: the
\* returned colours are the counted ones, each has red >= 1 and a channel
\* <= 240, (0,255,0) is never returned, and a pixel of alpha 0 and red >= 1
\* is counted.
PixelFilterExact ==
    palResult.status = "ok" =>
        LET p == palResult.palette
            data == palImage.data
        IN  /\ InPalette(p) \subseteq QualifyingColors(data)
            /\ Len(p) < 10 => QualifyingColors(data) \subseteq InPalette(p)
            /\ \A i \in DOMAIN p :
                   /\ p[i][1] >= 1
                   /\ (p[i][1] <= 240 \/ p[i][2] <= 240 \/ p[i][3] <= 240)
            /\ <<0, 255, 0>> \notin InPalette(p)

\* a transparent pixel of red 10 and a pixel with one channel at 240 are
\* counted next to a red-0 pixel and a near-white one that are left out
PixelFilterWitness ==
    /\ palResult.status = "ok"
    /\ \E i, j, k, l \in DOMAIN palImage.data :
           /\ palImage.data[i] = <<10, 20, 200, 0>>
           /\ palImage.data[j] = <<241, 241, 240, 255>>
           /\ palImage.data[k] = <<0, 255, 0, 255>>
           /\ palImage.data[l] = <<250, 250, 250, 255>>
    /\ InPalette(palResult.palette) = {<<10, 20, 200>>, <<241, 241, 240>>}

(***************************************************************************)
(* Part 3: the recompute pass over the tab strip.                          *)
(*                                                                         *)
(* The state names a url, an img and a theme (by its id); Chars gives the  *)
(* characters of a url, Bitmap the pixels of an img, ThemeOf the theme of  *)
(* an id.  An inline style value is unset (null), a var(...) reference,    *)
(* the css() of a colour, or the css() of a colour after chroma's darken   *)
(* or alpha (kept as the operation, its amount and the colour it is        *)
(* applied to).                                                            *)
(***************************************************************************)

\* bounds of the tab-strip specification
NumTabs == 2
MaxPasses == 3
MaxEvents == 1

Variants == {"part_000", "part_001", "color_tabs"}

\* const SATURATION = 0.5 (color_tabs.js)
SATURATION == <<1, 2>>

\* isBright: luminance() > 0.4, in the units of Luminance
BrightThreshold == 400000000

INTERNAL_PAGES ==
    { <<"c", "h", "r", "o", "m", "e", ":", "/", "/">>,
      <<"v", "i", "v", "a", "l", "d", "i", ":", "/", "/">>,
      <<"d", "e", "v", "t", "o", "o", "l", "s", ":", "/", "/">>,
      <<"c", "h", "r", "o", "m", "e", "-", "e", "x", "t", "e", "n", "s", "i",
        "o", "n", ":", "/", "/">> }

\* the urls and preference paths of the specification, with their
\* characters
Chars ==
    [u \in {"https://a.io", "chrome://settings", "vivaldi.themes.current",
            "vivaldi.tabs.bar"} |->
        CASE u = "https://a.io" ->
                 <<"h", "t", "t", "p", "s", ":", "/", "/", "a", ".", "i", "o">>
          [] u = "chrome://settings" ->
                 <<"c", "h", "r", "o", "m", "e", ":", "/", "/", "s", "e", "t",
                   "t", "i", "n", "g", "s">>
          [] u = "vivaldi.themes.current" ->
                 <<"v", "i", "v", "a", "l", "d", "i", ".", "t", "h", "e", "m",
                   "e", "s", ".", "c", "u", "r", "r", "e", "n", "t">>
          [] u = "vivaldi.tabs.bar" ->
                 <<"v", "i", "v", "a", "l", "d", "i", ".", "t", "a", "b", "s",
                   ".", "b", "a", "r">>]

\* url.startsWith(p)
StartsWith(url, p) ==
    Len(Chars[url]) >= Len(p) /\ SubSeq(Chars[url], 1, Len(p)) = p

\* #isInternalPage: part_001's body has no return, so it yields undefined
isInternalPage(v, url) ==
    CASE v = "part_000" -> \E q \in INTERNAL_PAGES : StartsWith(url, q)
      [] v = "part_001" -> FALSE
      [] v = "color_tabs" -> FALSE   \* the file has no such test

Unset == [kind |-> "unset"]
Var(name) == [kind |-> "var", name |-> name]
CssOf(op, amount, c) == [kind |-> "css", op |-> op, amount |-> amount, of |-> c]

AccentProperties ==
    { "--colorAccentBg", "--colorAccentBgDark", "--colorAccentBgDarker",
      "--colorAccentBgAlpha", "--colorAccentBgAlphaHeavy", "--colorAccentFg",
      "--colorAccentFgAlpha", "--colorAccentFgAlphaHeavy" }

\* const isBright = colorAccentBg.luminance() > 0.4
IsBrightHalf(c) == Luminance(c) > 500000000
IsBright(c) == Luminance(c) > BrightThreshold

\* isBright ? BLACK : WHITE
Foreground(isBright) == IF isBright THEN BLACK ELSE WHITE

\* the eight properties, were a second write to darken what the first left
setAccentColorsOnTop(v, bs, accentBg, isBright) ==
    [q \in AccentProperties |->
        IF bs[q] = [kind |-> "unset"] THEN Css(accentBg)
        ELSE [kind |-> "css", op |-> "darken", amount |-> 40, of |-> accentBg]]

\* the eight properties, were the three foreground writes a later step that
\* has not run yet
setAccentColorsInTwoSteps(v, bs, accentBg, isBright) ==
    [q \in AccentProperties |->
        CASE q = "--colorAccentBg" -> Css(accentBg)
          [] q = "--colorAccentBgDark" -> CssOf("darken", 40, accentBg)
          [] q = "--colorAccentBgDarker" -> CssOf("darken", 100, accentBg)
          [] q = "--colorAccentBgAlpha" ->
                 CssOf("alpha", IF isBright THEN 45 ELSE 55, accentBg)
          [] q = "--colorAccentBgAlphaHeavy" ->
                 CssOf("alpha", IF isBright THEN 25 ELSE 35, accentBg)
          [] OTHER -> bs[q]]

\* #setAccentColors: the eight setProperty calls on #browser.  part_000
\* takes the two foreground alphas from colorAccentFg, the other two files
\* from accentBg.  Amounts are in hundredths.
setAccentColors(v, bs, accentBg, isBright) ==
    LET fgSource == IF v = "part_000" THEN Foreground(isBright) ELSE accentBg
    IN  [q \in AccentProperties |->
            CASE q = "--colorAccentBg" -> Css(accentBg)
              [] q = "--colorAccentBgDark" -> CssOf("darken", 40, accentBg)
              [] q = "--colorAccentBgDarker" -> CssOf("darken", 100, accentBg)
              [] q = "--colorAccentBgAlpha" ->
                     CssOf("alpha", IF isBright THEN 45 ELSE 55, accentBg)
              [] q = "--colorAccentBgAlphaHeavy" ->
                     CssOf("alpha", IF isBright THEN 25 ELSE 35, accentBg)
              [] q = "--colorAccentFg" -> Css(Foreground(isBright))
              [] q = "--colorAccentFgAlpha" -> CssOf("alpha", 15, fgSource)
              [] q = "--colorAccentFgAlphaHeavy" -> CssOf("alpha", 5, fgSource)]

\* tab.querySelector('img') found nothing
NoImage == "none"

\* the icons of the specification, with their bitmaps
Gold == <<255, 200, 0, 255>>
Bitmap ==
    [icon \in {"red", "yellow", "mixed", "filtered", "zero"} |->
        CASE icon = "red" -> Row(<< <<255, 0, 0, 255>> >>)
          [] icon = "yellow" -> Row(<< <<255, 255, 0, 255>> >>)
          [] icon = "mixed" ->
                 Row(<< <<10, 20, 201, 0>>, Gold, Gold, <<250, 250, 250, 255>>,
                        <<0, 255, 0, 255>> >>)
          [] icon = "filtered" ->
                 Row(<< <<250, 250, 250, 255>>, <<0, 255, 0, 255>> >>)
          [] icon = "zero" -> Row(<<>>)]

\* const palette = this.#getPalette(image)
PaletteOf(image) == getPalette(Bitmap[image])

\* the themes of the preference store, by id
Theme(accentFromPage, transparencyTabs, accentOnWindow, limit) ==
    [accentFromPage |-> accentFromPage, transparencyTabs |-> transparencyTabs,
     accentOnWindow |-> accentOnWindow, colorAccentBg |-> <<51, 102, 153>>,
     accentSaturationLimit |-> limit, colorBg |-> <<246, 240, 230>>]

ThemeOf ==
    [id \in {"plain", "onWindow", "gray", "off", "transparent", "none"} |->
        CASE id = "plain" -> Theme(TRUE, FALSE, FALSE, <<1, 1>>)
          [] id = "onWindow" -> Theme(TRUE, FALSE, TRUE, <<1, 2>>)
          [] id = "gray" -> Theme(TRUE, FALSE, FALSE, <<0, 1>>)
          [] id = "off" -> Theme(FALSE, FALSE, FALSE, <<1, 1>>)
          [] id = "transparent" -> Theme(TRUE, TRUE, FALSE, <<1, 1>>)
          [] id = "none" -> Theme(FALSE, FALSE, FALSE, <<0, 1>>)]

Themes == {"plain", "onWindow", "gray", "off", "transparent"}

\* the value given to set('hsl.s', ...): the saturation times the theme's
\* limit, or SATURATION itself in color_tabs.js
NewSaturation(v, base, limit) ==
    IF v = "color_tabs" THEN SATURATION ELSE Times(GetSaturation(base), limit)

\* the outcome of one #setTabColor call: the tab's inline style and
\* #browser's properties after it, with what the call computed.
\*   tab   the div.tab (active, url, image) when the call resumes
\*   st    its inline style, bs #browser's accent properties
\*   args  the theme the pass read (color_tabs.js: the theme whose
\*         --colorBg is on #browser)
Outcome(kind, st, bs, base, accent) ==
    [kind |-> kind, style |-> st, browser |-> bs, base |-> base,
     accent |-> accent]

NoColor == <<-1, -1, -1>>

\* part_000, lines 95-116: the writes
Writes000(tab, st, bs, args, internal, accent) ==
    LET isBright == IsBright(accent)
    IN  IF internal
        THEN IF tab.active
             THEN [style |-> [backgroundColor |->
                                  IF ThemeOf[args].accentOnWindow
                                  THEN Var("--colorBg")
                                  ELSE Var("--colorAccentBg"),
                              color |-> Var("--colorFg")],
                   browser |-> setAccentColors("part_000", bs, accent, isBright)]
             ELSE [style |-> [backgroundColor |-> Var("--colorBgDark"),
                              color |-> Var("--colorFg")],
                   browser |-> bs]
        ELSE IF tab.active
             THEN [style |-> IF ThemeOf[args].accentOnWindow
                             THEN [backgroundColor |-> Var("--colorBg"),
                                   color |-> Var("--colorFg")]
                             ELSE st,
                   browser |-> setAccentColors("part_000", bs, accent, isBright)]
             ELSE [style |-> [backgroundColor |-> Css(accent),
                              color |-> Css(Foreground(isBright))],
                   browser |-> bs]

\* the writes, were the shared properties set for every tab
Writes001Shared(v, tab, st, bs, accent) ==
    [style |-> IF tab.active THEN st
               ELSE [backgroundColor |-> Css(accent),
                     color |-> Css(Foreground(IsBright(accent)))],
     browser |-> setAccentColors(v, bs, accent, IsBright(accent))]

\* part_001, lines 83-88, and color_tabs.js, lines 75-80: the writes
Writes001(v, tab, st, bs, accent) ==
    LET isBright == IsBright(accent)
    IN  IF tab.active
        THEN [style |-> st, browser |-> setAccentColors(v, bs, accent, isBright)]
        ELSE [style |-> [backgroundColor |-> Css(accent),
                         color |-> Css(Foreground(isBright))],
              browser |-> bs]

\* the colours one #setTabColor call computes before it writes (part_000,
\* lines 76-92): whether the page is internal, what #getPalette gave, the
\* base colour and the accent colour made of it
tabColors(v, url, image, args) ==
    LET internal == isInternalPage(v, url)
        readsImage == image # NoImage /\ ~internal
        palette == IF readsImage THEN PaletteOf(image) ELSE Returned(<<>>)
        fallback == IF v = "color_tabs" THEN Chroma(ThemeOf[args].colorBg)
                    ELSE Chroma(ThemeOf[args].colorAccentBg)
        base == IF readsImage /\ palette.status = "ok" /\ Len(palette.palette) > 0
                THEN Chroma(palette.palette[1]) ELSE fallback
    IN  [internal |-> internal,
         threw |-> palette.status = "threw",
         empty |-> readsImage /\ palette.status = "ok"
                       /\ Len(palette.palette) = 0,
         base |-> base,
         accent |-> SetSaturation(base,
                        NewSaturation(v, base,
                                      ThemeOf[args].accentSaturationLimit))]

\* tabColors for every tab and theme of the specification, evaluated once
TabKindUrls == {"https://a.io", "chrome://settings"}
TabKindImages == {NoImage, "red", "yellow", "mixed", "filtered", "zero"}
tabColorsOf ==
    [v \in Variants, url \in TabKindUrls, image \in TabKindImages,
     args \in Themes |-> tabColors(v, url, image, args)]

\* the rest of #setTabColor, with the colours c it computed: the early
\* return, the exception passing through, or the writes
Writes(v, tab, st, bs, args, c) ==
    IF c.threw
    THEN Outcome("threw", st, bs, NoColor, NoColor)
    ELSE IF v # "part_000" /\ c.empty
    THEN Outcome("returned", st, bs, NoColor, NoColor)
    ELSE LET w == IF v = "part_000"
                  THEN Writes000(tab, st, bs, args, c.internal, c.accent)
                  ELSE Writes001(v, tab, st, bs, c.accent)
         IN  Outcome("styled", w.style, w.browser, c.base, c.accent)

\* chromeTab is what await this.#getChromeTab(tabId) gave; an exception
\* there, or chromeTab.url of undefined, rejects the call before any write
setTabColor(v, tab, chromeTab, st, bs, args) ==
    IF chromeTab.status # "found"
    THEN Outcome("rejected", st, bs, NoColor, NoColor)
    ELSE Writes(v, tab, st, bs, args,
                tabColorsOf[v, tab.url, tab.image, args])

\* #resetTabColor
resetTabColor(st) == [backgroundColor |-> Unset, color |-> Unset]

\* const tabColorAllowed = accentFromPage && !transparencyTabs
tabColorAllowed(th) ==
    ThemeOf[th].accentFromPage /\ ~ThemeOf[th].transparencyTabs

(***************************************************************************)
(* The tab strips the specification draws: tab 1 is the active one.        *)
(***************************************************************************)
Tabs == 1..NumTabs

TabKinds ==
    { [url |-> "https://a.io", image |-> NoImage],
      [url |-> "https://a.io", image |-> "yellow"],
      [url |-> "https://a.io", image |-> "mixed"],
      [url |-> "https://a.io", image |-> "filtered"],
      [url |-> "https://a.io", image |-> "zero"],
      [url |-> "chrome://settings", image |-> "red"] }

(***************************************************************************)
(* The browser's side of the tabs.  The data-id of a div.tab is a tab id   *)
(* (fewer than 16 characters) or, for a tab stack, a group id.  The window *)
(* is what chrome.tabs.query gives, in its order: for each browser tab the *)
(* div.tab that shows it and whether its vivExtData parses.  The group of  *)
(* a browser tab is that of its div.tab when that is a stack.              *)
(***************************************************************************)
BrowserTab(view, ext) == [view |-> view, ext |-> ext]

Window(order, malformed) ==
    [i \in 1..Len(order) |->
        BrowserTab(order[i], IF order[i] \in malformed THEN "malformed" ELSE "ok")]

Up == [i \in 1..NumTabs |-> i]
Down == [i \in 1..NumTabs |-> NumTabs + 1 - i]
UpButLast == [i \in 1..(NumTabs - 1) |-> i]

Chrome(stacks, window) == [stacks |-> stacks, window |-> window]

\* every browser tab there; the last one closed; the last div.tab a stack
\* without member; stacks with the last browser tab's vivExtData
\* malformed, at the end of the window or at its front
AllThere == Chrome({}, Window(Up, {}))
ChromeStates ==
    { AllThere,
      Chrome({}, Window(UpButLast, {})),
      Chrome({NumTabs}, Window(UpButLast, {})),
      Chrome(1..NumTabs, Window(Up, {NumTabs})),
      Chrome(1..NumTabs, Window(Down, {NumTabs})),
      Chrome({NumTabs}, Window(Down, {NumTabs})) }

Found(view) == [status |-> "found", view |-> view]
Rejected == [status |-> "rejected"]
Undefined == [status |-> "undefined"]

\* tabs.find((tab) => JSON.parse(tab.vivExtData).group === groupId), from
\* the i-th browser tab on
RECURSIVE FindInGroup(_, _, _, _)
FindInGroup(window, stacks, t, i) ==
    IF i > Len(window) THEN Undefined
    ELSE IF window[i].ext = "malformed" THEN Rejected
    ELSE IF window[i].view \in stacks /\ window[i].view = t
    THEN Found(window[i].view)
    ELSE FindInGroup(window, stacks, t, i + 1)

\* #getFirstChromeTabInGroup
getFirstChromeTabInGroup(c, t) == FindInGroup(c.window, c.stacks, t, 1)

\* chrome.tabs.get(Number(tabId)): the tab, or a rejection when there is
\* no tab of that id
TabsGet(c, t) ==
    IF \E i \in DOMAIN c.window : c.window[i].view = t THEN Found(t)
    ELSE Rejected

\* #getChromeTab: tabId.length < 16 ? tabs.get : #getFirstChromeTabInGroup
getChromeTab(c, t) ==
    IF t \notin c.stacks THEN TabsGet(c, t) ELSE getFirstChromeTabInGroup(c, t)

\* color_tabs.js looks no browser tab up
ChromeTabOf(v, c, t) == IF v = "color_tabs" THEN Found(t) ELSE getChromeTab(c, t)

(***************************************************************************)
(* The passes.  A pass is one call of #colorTabs: it waits for             *)
(* #getCurrentTheme ("theme"; not in color_tabs.js, which reads no theme), *)
(* then has one #setTabColor call per tab, each waiting for #getChromeTab  *)
(* ("tabs", pending the tabs not yet written).  In color_tabs.js the calls *)
(* are synchronous: they run in DOM order, nothing else runs in between,   *)
(* and an exception ends the forEach and the handler.                      *)
(***************************************************************************)
NoArgs == "none"
\* by is who called #colorTabs: the constructor, a listener (the first
\* call of #colorTabsDelayed) or the timer
NoPass == [stage |-> "none", args |-> NoArgs, pending |-> {}, arm |-> FALSE,
           threw |-> FALSE, by |-> "none"]
Finished(threw, by) == [stage |-> "done", args |-> NoArgs, pending |-> {},
                        arm |-> FALSE, threw |-> threw, by |-> by]

\* the state of a pass right after #colorTabs is called
Called(v, arm, by) ==
    IF v = "color_tabs"
    THEN [stage |-> "tabs", args |-> NoArgs, pending |-> Tabs, arm |-> arm,
          threw |-> FALSE, by |-> by]
    ELSE [stage |-> "theme", args |-> NoArgs, pending |-> {}, arm |-> FALSE,
          threw |-> FALSE, by |-> by]

Started == { p \in 1..MaxPasses : passes[p].stage # "none" }
NextPass == Cardinality(Started) + 1
ToArm == Cardinality({ p \in 1..MaxPasses : passes[p].arm })

\* a synchronous forEach of color_tabs.js is running
SyncRunning ==
    variant = "color_tabs" /\ \E p \in 1..MaxPasses : passes[p].stage = "tabs"

\* the constructor reached #addListeners (in color_tabs.js only when its own
\* #colorTabs call did not throw)
Listening ==
    variant # "color_tabs" \/ (passes[1].stage = "done" /\ ~passes[1].threw)

\* the history of completed passes: nothing yet; the styles the first pass
\* to complete left, with the number of passes started by then; or void,
\* once the theme, a tab's active class or a tab's img has changed
NoSnap == [taken |-> "no"]
Void == [taken |-> "void"]
Taken(st, bs) ==
    [taken |-> "yes", style |-> st, browser |-> bs,
     started |-> Cardinality(Started)]

\* the history after a step that completes a pass or not
Snapshot(completes, st, bs) ==
    IF completes /\ snap = NoSnap THEN Taken(st, bs) ELSE snap

Step(op, p, t, kind, base, accent, args) ==
    [op |-> op, pass |-> p, tab |-> t, kind |-> kind, base |-> base,
     accent |-> accent, args |-> args]

\* the strips drawn with a browser state other than AllThere: under the
\* plain theme, of these tabs
LookupKinds ==
    { [url |-> "https://a.io", image |-> NoImage],
      [url |-> "https://a.io", image |-> "yellow"],
      [url |-> "chrome://settings", image |-> "red"] }

Init ==
    /\ palImage = Row(<<>>)
    /\ palResult = NotRun
    /\ variant \in Variants
    /\ theme \in Themes
    /\ \E kinds \in [Tabs -> TabKinds] :
           tabs = [t \in Tabs |->
                      [active |-> (t = 1), url |-> kinds[t].url,
                       image |-> kinds[t].image]]
    /\ \/ chrome = AllThere
       \/ /\ chrome \in ChromeStates
          /\ variant # "color_tabs"
          /\ theme = "plain"
          /\ \A t \in Tabs : [url |-> tabs[t].url, image |-> tabs[t].image]
                                 \in LookupKinds
    /\ style = [t \in Tabs |-> [backgroundColor |-> Unset, color |-> Unset]]
    /\ browserStyle = [q \in AccentProperties |-> Unset]
    /\ passes = [p \in 1..MaxPasses |->
                    IF p = 1 THEN Called(variant, FALSE, "constructor")
                    ELSE NoPass]
    /\ timers = 0
    /\ events = 0
    /\ NoStartup
    /\ last = Step("constructor", 1, 0, "none", NoColor, NoColor, NoArgs)
    /\ snap = NoSnap

\* #colorTabsDelayed (and the same two statements inline in color_tabs.js):
\* a pass now and one more after 100 ms.  In the async files the timer is
\* armed at once; in color_tabs.js after the synchronous pass, if it returns.
CanTrigger == Cardinality(Started) + timers + ToArm + 2 <= MaxPasses

colorTabsDelayed ==
    /\ passes' = [passes EXCEPT ![NextPass] = Called(variant, TRUE, "listener")]
    /\ timers' = IF variant = "color_tabs" THEN timers ELSE timers + 1

\* the event's handler, when the file registered one for it and the
\* handler calls #colorTabsDelayed; what is what the event carries
Handle(listens, op, what) ==
    /\ events < MaxEvents
    /\ ~SyncRunning
    /\ events' = events + 1
    /\ IF listens /\ Listening
       THEN /\ CanTrigger
            /\ colorTabsDelayed
            /\ last' = Step(op, NextPass, 0, "trigger", NoColor, NoColor, what)
       ELSE /\ UNCHANGED <<passes, timers>>
            /\ last' = Step(op, 0, 0, "ignored", NoColor, NoColor, what)

\* the paths vivaldi.prefs.onChanged reports
PrefPaths == {"vivaldi.themes.current", "vivaldi.tabs.bar"}
THEMES_PATH ==
    <<"v", "i", "v", "a", "l", "d", "i", ".", "t", "h", "e", "m", "e", "s">>

\* the prefs.onChanged listener calls #colorTabsDelayed: part_000 for a path
\* under vivaldi.themes, part_001 for every path; color_tabs.js has none
PrefsListener(v, path) ==
    CASE v = "part_000" -> StartsWith(path, THEMES_PATH)
      [] v = "part_001" -> TRUE
      [] v = "color_tabs" -> FALSE

\* vivaldi.prefs.onChanged: under vivaldi.themes.current the theme is
\* replaced, under another path it stays
PrefsChanged ==
    /\ \E path \in PrefPaths :
           /\ IF path = "vivaldi.themes.current"
              THEN /\ \E th \in Themes \ {theme} : theme' = th
                   /\ snap' = Void
              ELSE /\ theme' = theme
                   /\ snap' = snap
           /\ Handle(PrefsListener(variant, path), "prefs.onChanged", path)
    /\ UNCHANGED <<palVars, startVars, variant, chrome, tabs, style, browserStyle>>

\* the MutationObserver on div.tab-strip (childList, subtree) calls
\* #colorTabsDelayed in part_001 and color_tabs.js; part_000 declares
\* #observer and never creates one
Observer(v) == v \in {"part_001", "color_tabs"}

\* an img is inserted into a tab that had none
InsertedIcons == {"yellow", "zero"}
IconInserted ==
    /\ \E t \in Tabs, icon \in InsertedIcons :
           /\ tabs[t].image = NoImage
           /\ tabs' = [tabs EXCEPT ![t].image = icon]
    /\ snap' = Void
    /\ Handle(Observer(variant), "MutationObserver", NoArgs)
    /\ UNCHANGED <<palVars, startVars, variant, chrome, theme, style, browserStyle>>

\* chrome.tabs.onActivated: another tab gets the active class.  Only
\* part_000 listens; a class change is no childList mutation.
TabActivated ==
    /\ \E t \in Tabs :
           /\ ~tabs[t].active
           /\ tabs' = [u \in Tabs |-> [tabs[u] EXCEPT !.active = (u = t)]]
    /\ snap' = Void
    /\ Handle(variant = "part_000", "tabs.onActivated", NoArgs)
    /\ UNCHANGED <<palVars, startVars, variant, chrome, theme, style, browserStyle>>

\* vivaldi.tabsPrivate.onThemeColorChanged: every file listens
ThemeColorChanged ==
    /\ Handle(TRUE, "onThemeColorChanged", NoArgs)
    /\ UNCHANGED <<palVars, startVars, variant, chrome, theme, tabs, style, browserStyle, snap>>

\* setTimeout(() => this.#colorTabs(), 100) fires
TimerFired ==
    /\ timers > 0
    /\ ~SyncRunning
    /\ timers' = timers - 1
    /\ passes' = [passes EXCEPT ![NextPass] = Called(variant, FALSE, "timer")]
    /\ last' = Step("timer", NextPass, 0, "trigger", NoColor, NoColor, NoArgs)
    /\ UNCHANGED <<palVars, startVars, variant, chrome, theme, tabs, style, browserStyle, events,
                   snap>>

\* #colorTabs resumes with the theme (part_000, part_001)
ThemeRead(p) ==
    /\ passes[p].stage = "theme"
    /\ IF variant = "part_000" /\ ~tabColorAllowed(theme)
       THEN /\ style' = [t \in Tabs |-> resetTabColor(style[t])]
            /\ passes' = [passes EXCEPT ![p] = Finished(FALSE, passes[p].by)]
            /\ snap' = Snapshot(TRUE, [t \in Tabs |-> resetTabColor(style[t])],
                                browserStyle)
       ELSE /\ passes' = [passes EXCEPT ![p] =
                             [stage |-> "tabs", args |-> theme, pending |-> Tabs,
                              arm |-> FALSE, threw |-> FALSE,
                              by |-> passes[p].by]]
            /\ UNCHANGED <<style, snap>>
    /\ last' = Step("colorTabs", p, 0,
                    IF tabColorAllowed(theme) THEN "allowed" ELSE "notAllowed",
                    NoColor, NoColor, theme)
    /\ UNCHANGED <<palVars, startVars, variant, chrome, theme, tabs, browserStyle, timers, events>>

\* the d-th tab in DOM order is the next of a synchronous forEach
IsNext(p, t) ==
    variant = "color_tabs" => \A u \in passes[p].pending : t <= u

\* the theme a #setTabColor call of pass p works with
ArgsOf(p) == IF variant = "color_tabs" THEN theme ELSE passes[p].args

\* what a #setTabColor call with outcome out leaves: the styles, the pass
\* (an exception ends the forEach of color_tabs.js and the handler before
\* its setTimeout), the timer armed after the last tab
Resume(p, t, args, out, aborts) ==
    LET rest == IF aborts THEN {} ELSE passes[p].pending \ {t}
    IN  /\ style' = [style EXCEPT ![t] = out.style]
        /\ browserStyle' = out.browser
        /\ passes' = [passes EXCEPT ![p] =
               IF rest = {} THEN Finished(aborts, passes[p].by)
               ELSE [passes[p] EXCEPT !.pending = rest]]
        /\ timers' = IF rest = {} /\ passes[p].arm /\ ~aborts
                     THEN timers + 1 ELSE timers
        /\ last' = Step("setTabColor", p, t, out.kind, out.base, out.accent,
                        args)
        /\ snap' = Snapshot(rest = {}, [style EXCEPT ![t] = out.style],
                            out.browser)

\* the call's end, were any exception to end the pass
SettleAborting(p, t, args, out) ==
    Resume(p, t, args, out, out.kind \in {"threw", "rejected"})

Settle(p, t, args, out) ==
    Resume(p, t, args, out, variant = "color_tabs" /\ out.kind = "threw")

\* one #setTabColor call runs its writes (after #getChromeTab in part_000
\* and part_001; at once in color_tabs.js, which reads --colorBg there)
TabColored(p, t) ==
    /\ passes[p].stage = "tabs"
    /\ t \in passes[p].pending
    /\ IsNext(p, t)
    /\ Settle(p, t, ArgsOf(p),
              setTabColor(variant, tabs[t], ChromeTabOf(variant, chrome, t),
                          style[t], browserStyle, ArgsOf(p)))
    /\ UNCHANGED <<palVars, startVars, variant, chrome, theme, tabs, events>>

Next ==
    \/ PrefsChanged
    \/ TabActivated
    \/ ThemeColorChanged
    \/ IconInserted
    \/ TimerFired
    \/ \E p \in 1..MaxPasses : ThemeRead(p)
    \/ \E p \in 1..MaxPasses, t \in Tabs : TabColored(p, t)

Spec == Init /\ [][Next]_vars

(***************************************************************************)
(* Properties of the tab strip.  last is the step that led to the state:   *)
(* after a #setTabColor step, tabs is the strip the call wrote to, style   *)
(* and browserStyle are what it left.                                      *)
(***************************************************************************)
TabColoredLast == last.op = "setTabColor"
Completed == TabColoredLast /\ last.kind \notin {"threw", "rejected"}

\* the browser tab of div.tab t is found (color_tabs.js looks none up)
Reached(t) == ChromeTabOf(variant, chrome, t).status = "found"

HasInternalPrefix(url) == \E q \in INTERNAL_PAGES : StartsWith(url, q)
NeutralPair == [backgroundColor |-> Var("--colorBgDark"), color |-> Var("--colorFg")]
UnsetPair == [backgroundColor |-> Unset, color |-> Unset]

\* C1: in part_000 and part_001, whenever #setTabColor completes for an
\* inactive tab whose url starts with an internal prefix, the tab's inline
\* background and foreground are var(--colorBgDark) and var(--colorFg),
\* never a colour of its favicon.
InternalTabsNeutral ==
    (/\ Completed
     /\ variant \in {"part_000", "part_001"}
     /\ ~tabs[last.tab].active
     /\ HasInternalPrefix(tabs[last.tab].url))
        => style[last.tab] = NeutralPair

\* the part of C1 the code keeps: part_000
InternalTabsNeutral000 == variant = "part_000" => InternalTabsNeutral

\* the tab has an img of at least one pixel whose pixels are all filtered
EmptyPaletteTab(t) ==
    /\ tabs[t].image # NoImage
    /\ PaletteOf(tabs[t].image) = Returned(<<>>)

\* the fallback base colour of the variant: the theme's accent colour, in
\* color_tabs.js --colorBg
FallbackOf(args) ==
    IF variant = "color_tabs" THEN Chroma(ThemeOf[args].colorBg)
    ELSE Chroma(ThemeOf[args].colorAccentBg)

\* C2: in every variant, a tab whose img gives an empty palette is styled in
\* the pass from the fallback base colour: an inactive tab gets the
\* background and foreground derived from it, an active tab the shared
\* accent properties; it is never left with the style it had.
EmptyPaletteFallsBack ==
    (TabColoredLast /\ EmptyPaletteTab(last.tab)) =>
        /\ last.kind = "styled"
        /\ last.base = FallbackOf(last.args)
        /\ IF tabs[last.tab].active
           THEN browserStyle["--colorAccentBg"] = Css(last.accent)
           ELSE style[last.tab].backgroundColor = Css(last.accent)

\* the part of C2 the code keeps: part_000
EmptyPaletteFallsBack000 == variant = "part_000" => EmptyPaletteFallsBack

ReadsTheme == variant \in {"part_000", "part_001"}

\* C3: in every variant that reads the theme, a pass that reads a theme with
\* accentFromPage false or transparencyTabs true sets every tab's inline
\* background and foreground to unset and ends there: it makes no
\* #setTabColor call (no favicon colour, no shared accent property).
NotAllowedResets ==
    /\ (ReadsTheme /\ last.op = "colorTabs" /\ ~tabColorAllowed(last.args)) =>
            /\ \A t \in Tabs : style[t] = UnsetPair
            /\ passes[last.pass].stage = "done"
    /\ (ReadsTheme /\ TabColoredLast) => tabColorAllowed(last.args)

\* the part of C3 the code keeps: part_000
NotAllowedResets000 == variant = "part_000" => NotAllowedResets

Styled == TabColoredLast /\ last.kind = "styled"

\* black when the luminance of c is above 0.4, white otherwise
ForegroundFor(c) ==
    IF Luminance(c) > BrightThreshold THEN Css(BLACK) ELSE Css(WHITE)

\* C8: in every variant the foreground written with a background is black
\* exactly when the luminance of that saturation-adjusted background is
\* above 0.4 and white otherwise: the inline color of an inactive web-page
\* tab and --colorAccentFg for an active tab take no other value.
ForegroundByLuminance ==
    Styled =>
        IF tabs[last.tab].active
        THEN /\ browserStyle["--colorAccentBg"] = Css(last.accent)
             /\ browserStyle["--colorAccentFg"] = ForegroundFor(last.accent)
        ELSE ~HasInternalPrefix(tabs[last.tab].url) =>
                 /\ style[last.tab].backgroundColor = Css(last.accent)
                 /\ style[last.tab].color = ForegroundFor(last.accent)

\* an inactive web-page tab got black on a background whose luminance is
\* between 0.4 and 0.5
ForegroundWitness ==
    /\ Styled
    /\ ~tabs[last.tab].active
    /\ ~HasInternalPrefix(tabs[last.tab].url)
    /\ Luminance(last.accent) > BrightThreshold
    /\ Luminance(last.accent) < 500000000
    /\ style[last.tab].color = Css(BLACK)

\* the saturation limit configured for the pass: the theme's
\* accentSaturationLimit, in color_tabs.js the constant SATURATION
ConfiguredLimit ==
    IF variant = "color_tabs" THEN SATURATION
    ELSE ThemeOf[last.args].accentSaturationLimit

\* p <= q for rationals of positive denominator
NotAbove(p, q) == p[1] * q[2] <= q[1] * p[2]

\* the colour of hue and lightness of c and of its saturation times limit
Remapped(c, limit) ==
    Hsl2Rgb([Rgb2Hsl(c) EXCEPT !.s = Times(GetSaturation(c), limit)])

\* C9: in every variant the colour applied to a tab is its base colour with
\* the saturation multiplied by the configured limit and hue and lightness
\* kept: unchanged at limit 1, of saturation 0 at limit 0, and of a
\* saturation that never exceeds the base's.
SaturationTimesLimit ==
    Styled =>
        /\ last.accent = Remapped(last.base, ConfiguredLimit)
        /\ NotAbove(GetSaturation(last.accent), GetSaturation(last.base))
        /\ ConfiguredLimit = <<1, 1>> => last.accent = last.base
        /\ ConfiguredLimit = <<0, 1>> => GetSaturation(last.accent)[1] = 0

\* the part of C9 the code keeps: part_000 and part_001
SaturationTimesLimitOfTheme == ReadsTheme => SaturationTimesLimit

\* C10: in every variant a #setTabColor call on a tab that is inactive at
\* the write changes nothing but that tab's inline background and
\* foreground: the eight accent properties of #browser and every other
\* tab's inline style stay as they were.
InactiveWriteFrame ==
    [][(last'.op = "setTabColor" /\ ~tabs[last'.tab].active) =>
           /\ browserStyle' = browserStyle
           /\ \A u \in Tabs \ {last'.tab} : style'[u] = style[u]]_vars

\* an inactive tab got its colour while #browser carries the accent of
\* another colour
InactiveWriteWitness ==
    /\ Styled
    /\ ~tabs[last.tab].active
    /\ style[last.tab].backgroundColor = Css(last.accent)
    /\ browserStyle["--colorAccentBg"] \notin {Unset, Css(last.accent)}

\* the tab's background per the accent-on-window flag
ActiveBackground(args) ==
    IF ThemeOf[args].accentOnWindow THEN Var("--colorBg")
    ELSE Var("--colorAccentBg")

\* C11: in part_000, whenever #setTabColor completes for an active tab, the
\* eight accent properties of #browser are written from the tab's accent
\* colour and the tab's inline background is the value the accent-on-window
\* flag selects, for a web-page tab as for an internal one and for both
\* values of the flag.
ActiveTabWritten ==
    (Completed /\ variant = "part_000" /\ tabs[last.tab].active) =>
        /\ browserStyle["--colorAccentBg"] = Css(last.accent)
        /\ \A q \in AccentProperties : browserStyle[q] # Unset
        /\ style[last.tab].backgroundColor = ActiveBackground(last.args)

\* the part of C11 the code keeps: the accent properties, and the
\* background of an internal page's tab or under accent-on-window
ActiveTabWrittenWhereAssigned ==
    (Completed /\ variant = "part_000" /\ tabs[last.tab].active) =>
        /\ browserStyle["--colorAccentBg"] = Css(last.accent)
        /\ \A q \in AccentProperties : browserStyle[q] # Unset
        /\ (HasInternalPrefix(tabs[last.tab].url)
               \/ ThemeOf[last.args].accentOnWindow)
              => style[last.tab].backgroundColor = ActiveBackground(last.args)

\* an active web-page tab of part_000 that keeps the colour written while it
\* was inactive
ActiveTabKeepsInactiveColour ==
    /\ Completed /\ variant = "part_000" /\ tabs[last.tab].active
    /\ style[last.tab].backgroundColor.kind = "rgb"

\* C14: in every variant a tab without img is styled from the theme's
\* colorAccentBg (then the saturation remap), from no other colour, and the
\* call raises no error.
NoImageUsesThemeAccent ==
    (TabColoredLast /\ tabs[last.tab].image = NoImage /\ Reached(last.tab)) =>
        /\ last.kind = "styled"
        /\ last.base = Chroma(ThemeOf[last.args].colorAccentBg)
        /\ IF tabs[last.tab].active
           THEN browserStyle["--colorAccentBg"] = Css(last.accent)
           ELSE style[last.tab].backgroundColor = Css(last.accent)

\* the part of C14 the code keeps: part_000 and part_001
NoImageUsesThemeAccentOfTheme == ReadsTheme => NoImageUsesThemeAccent

\* C20: in part_000 and part_001 a preference change whose path does not
\* begin with vivaldi.themes starts no recompute pass and arms no timer.
OtherPrefsIgnored ==
    (/\ ReadsTheme
     /\ last.op = "prefs.onChanged"
     /\ ~StartsWith(last.args, THEMES_PATH))
        => last.kind = "ignored"

\* the part of C20 the code keeps: part_000
OtherPrefsIgnored000 == variant = "part_000" => OtherPrefsIgnored

\* the events of the specification that C18 lists: a tab activated, a
\* theme-color change, a preference change under vivaldi.themes, a mutation
\* of the tab strip's children (an img inserted)
ListedEvent ==
    \/ last.op \in {"tabs.onActivated", "onThemeColorChanged", "MutationObserver"}
    \/ last.op = "prefs.onChanged" /\ StartsWith(last.args, THEMES_PATH)

\* C18: in every variant each listed event starts a recompute; an img
\* inserted into a tab, with no other event near it, does.
EveryListedEventTriggers == ListedEvent => last.kind = "trigger"

\* part_000 leaves the insertion of an img without any recompute
IconInsertedUnnoticed ==
    /\ variant = "part_000"
    /\ last.op = "MutationObserver"
    /\ last.kind = "ignored"

\* the passes a listener started, and the passes a timer started
ByListener == { p \in Started : passes[p].by = "listener" }
ByTimer == { p \in Started : passes[p].by = "timer" }

\* no pass is running, no timer is armed or about to be
Idle ==
    /\ \A p \in Started : passes[p].stage = "done"
    /\ timers = 0

\* C16: every accepted trigger starts one pass at once and arms one delayed
\* pass that is never cancelled: the delayed passes started and the timers
\* armed are as many as the triggers, each delayed pass starts after the
\* immediate pass of its trigger, and once the trigger layer is idle 2N
\* passes were started for N triggers.
TriggerStartsTwoPasses ==
    /\ ~SyncRunning =>
           Cardinality(ByTimer) + timers = Cardinality(ByListener)
    /\ \A d \in ByTimer :
           Cardinality({ p \in ByListener : p < d })
               >= Cardinality({ e \in ByTimer : e <= d })
    /\ Idle => Cardinality(ByTimer) = Cardinality(ByListener)

\* the part of C16 the code keeps: part_000 and part_001
TriggerStartsTwoPassesAsync == ReadsTheme => TriggerStartsTwoPasses

\* a listener of color_tabs.js ran its pass and armed no timer
TimerNeverArmed ==
    /\ variant = "color_tabs"
    /\ Idle
    /\ Cardinality(ByListener) = 1
    /\ ByTimer = {}

\* C15: recomputation is idempotent: once a pass has run to completion,
\* and as long as the theme and every tab's active class, url and img stay
\* as they are, the passes that run afterwards leave every tab's inline
\* background and foreground and every accent property of #browser exactly
\* as that pass left them.
RecomputeIdempotent ==
    snap.taken = "yes" =>
        /\ style = snap.style
        /\ browserStyle = snap.browser

\* a later pass, started after the first one completed, has run to
\* completion over a coloured inactive tab and an active one
RecomputeTwiceWitness ==
    /\ snap.taken = "yes"
    /\ Idle
    /\ \E p \in Started : p > snap.started
    /\ \E t \in Tabs : style[t].backgroundColor.kind = "rgb"
    /\ browserStyle["--colorAccentBg"] # Unset

\* the colours the theme now in force gives tab t: from its img, or from
\* the theme's accent colour (the tab before its img was there)
ColoursOfTheme(t) ==
    { Css(tabColorsOf[variant, tabs[t].url, image, theme].accent) :
          image \in {tabs[t].image, NoImage} }

\* what the theme now in force asks of tab t: unset when it disallows tab
\* colours, a colour derived with its accent and saturation limit for an
\* inactive web-page tab whose browser tab is found and whose img, if any,
\* is read without exception
AsThemeAsks(t) ==
    IF ~tabColorAllowed(theme) THEN style[t] = UnsetPair
    ELSE (/\ ~tabs[t].active
          /\ Reached(t)
          /\ ~HasInternalPrefix(tabs[t].url)
          /\ ~tabColorsOf[variant, tabs[t].url, tabs[t].image, theme].threw)
             => style[t].backgroundColor \in ColoursOfTheme(t)

\* C17: in part_000, under any interleaving, once every pass and timer has
\* completed the inline style of every tab is the one the theme as last
\* changed asks for: no pass that read an older theme overwrites the result
\* of a pass that read the newer one.
SettlesOnLastTheme ==
    (variant = "part_000" /\ Idle) => \A t \in Tabs : AsThemeAsks(t)

\* the part of C17 the code keeps: behaviours in which the theme and the
\* tabs stay as they are
SettlesWithoutChange ==
    (variant = "part_000" /\ Idle /\ snap.taken = "yes")
        => \A t \in Tabs : AsThemeAsks(t)

\* part_000 idle with a tab in the colour of a theme no longer in force
StaleThemeColour ==
    /\ variant = "part_000"
    /\ Idle
    /\ ~tabColorAllowed(theme)
    /\ \E t \in Tabs : style[t].backgroundColor.kind = "rgb"

\* a pass ran after the last tab activation: part_000 listens for it,
\* part_001 does not
PassedSinceActivation == variant = "part_000" \/ snap.taken = "yes"

\* C12: in part_000 and part_001, when the lookup of a div.tab's browser
\* tab fails or yields nothing, the call leaves that tab's inline style and
\* the accent properties of #browser exactly as they were and the pass goes
\* on: the tabs still pending stay pending, and once all is done every
\* other tab is styled as the theme asks.
LookupFailureLeavesTab ==
    /\ [][(ReadsTheme /\ last'.op = "setTabColor" /\ last' # last
             /\ ~Reached(last'.tab)) =>
              /\ style' = style
              /\ browserStyle' = browserStyle
              /\ passes[last'.pass].pending # {last'.tab} =>
                     /\ passes'[last'.pass].stage = "tabs"
                     /\ passes'[last'.pass].pending
                            = passes[last'.pass].pending \ {last'.tab}]_vars
    /\ []((ReadsTheme /\ Idle /\ theme = "plain" /\ PassedSinceActivation
             /\ \E t \in Tabs : ~Reached(t)) =>
              \A t \in Tabs : AsThemeAsks(t))

\* a lookup failed in the last call of a pass that wrote the other tab: the
\* accent properties for an active one, its colour for an inactive one
LookupFailureWitness ==
    /\ ReadsTheme
    /\ TabColoredLast
    /\ last.kind = "rejected"
    /\ passes[last.pass].stage = "done"
    /\ style[last.tab] = UnsetPair
    /\ \E u \in Tabs \ {last.tab} :
           /\ Reached(u)
           /\ IF tabs[u].active THEN browserStyle["--colorAccentBg"] # Unset
              ELSE style[u].backgroundColor.kind = "rgb"

\* every browser tab of div.tab t is there with vivExtData that parses
OwnDataWellFormed(t) ==
    /\ \E i \in DOMAIN chrome.window : chrome.window[i].view = t
    /\ \A i \in DOMAIN chrome.window :
           chrome.window[i].view = t => chrome.window[i].ext = "ok"

\* C13: in part_000 and part_001 a browser tab whose vivExtData cannot be
\* parsed fails the lookup of its own div.tab only: every other div.tab,
\* tab stacks with well-formed members included, is resolved and styled.
MalformedDataConfined ==
    (ReadsTheme /\ TabColoredLast /\ OwnDataWellFormed(last.tab))
        => last.kind # "rejected"

\* the part of C13 the code keeps: a div.tab that is no stack
MalformedDataSparesPlainTabs ==
    (ReadsTheme /\ TabColoredLast /\ OwnDataWellFormed(last.tab)
       /\ last.tab \notin chrome.stacks)
        => last.kind # "rejected"

\* a tab stack with well-formed members whose lookup was rejected
StackRejectedByForeignData ==
    /\ ReadsTheme /\ TabColoredLast /\ last.kind = "rejected"
    /\ last.tab \in chrome.stacks
    /\ OwnDataWellFormed(last.tab)

\* the accent colour the properties bs were last written from
AccentOf(bs) == bs["--colorAccentBgDark"].of

\* the eight properties all come from the colour c and its brightness:
\* the background alphas are .45/.25 when c is bright and .55/.35 when not,
\* the foreground is black when c is bright and white when not, and its
\* two alphas are taken from that foreground or from c
FromOneAccent(bs, c) ==
    LET bright == Luminance(c) > BrightThreshold
    IN  /\ bs["--colorAccentBg"] = Css(c)
        /\ bs["--colorAccentBgDark"] = CssOf("darken", 40, c)
        /\ bs["--colorAccentBgDarker"] = CssOf("darken", 100, c)
        /\ bs["--colorAccentBgAlpha"]
               = CssOf("alpha", IF bright THEN 45 ELSE 55, c)
        /\ bs["--colorAccentBgAlphaHeavy"]
               = CssOf("alpha", IF bright THEN 25 ELSE 35, c)
        /\ bs["--colorAccentFg"] = ForegroundFor(c)
        /\ \E src \in {c, IF bright THEN BLACK ELSE WHITE} :
               /\ bs["--colorAccentFgAlpha"] = CssOf("alpha", 15, src)
               /\ bs["--colorAccentFgAlphaHeavy"] = CssOf("alpha", 5, src)

\* C21: in every state between two steps the accent properties of #browser
\* are either all unset or all eight derived from one accent colour and its
\* brightness flag, the background alphas being .45/.25 exactly when that
\* colour is bright and .55/.35 otherwise: no interleaving of passes leaves
\* a mix from two tabs or two themes.
AccentPropertiesFromOneWrite ==
    \/ \A q \in AccentProperties : browserStyle[q] = Unset
    \/ /\ \A q \in AccentProperties : browserStyle[q] # Unset
       /\ FromOneAccent(browserStyle, AccentOf(browserStyle))

\* two passes that read different themes have both written the accent
\* properties for the active tab, the later write with another colour
AccentWrittenTwiceWitness ==
    /\ Styled
    /\ tabs[last.tab].active
    /\ browserStyle["--colorAccentBg"] = Css(last.accent)
    /\ \E p \in Started \ {last.pass} :
           /\ passes[p].stage = "tabs"
           /\ last.tab \notin passes[p].pending
           /\ ArgsOf(p) # last.args
           /\ ~tabColorsOf[variant, tabs[last.tab].url, tabs[last.tab].image,
                           ArgsOf(p)].threw
           /\ tabColorsOf[variant, tabs[last.tab].url, tabs[last.tab].image,
                          ArgsOf(p)].accent # last.accent

(***************************************************************************)
(* Part 4: start-up.  The script waits 1000 ms, then polls every 100 ms    *)
(* for #browser and constructs ColorTabs in the tick that finds it.  Time   *)
(* is counted in poll periods and stops counting at MaxTime; a timer       *)
(* callback runs no earlier than its delay, possibly later.                *)
(***************************************************************************)
MaxTime == 12
MaxInstances == 3

\* setTimeout(..., 1000), in periods of the setInterval(..., 100)
StartDelay == 10

\* what the constructor finds in the document: #browser, div.tab-strip
\* inside it, and in the strip a div.tab whose #setTabColor throws (an img
\* getImageData cannot read)
Dom(browser, tabStrip, throwing) ==
    [browser |-> browser, tabStrip |-> tabStrip, throwing |-> throwing]
DomStates ==
    { Dom(FALSE, FALSE, FALSE), Dom(TRUE, FALSE, FALSE),
      Dom(TRUE, TRUE, FALSE), Dom(TRUE, TRUE, TRUE) }

\* no constructor has run
NoneMade == [constructed |-> 0, returned |-> 0, styles |-> 0, passes |-> 0,
             listeners |-> 0, firstAt |-> 0, unseen |-> FALSE]

\* this.#colorTabs() in the constructor throws: only the synchronous one of
\* color_tabs.js can, an async function returns a promise
colorTabsThrows(v, d) == v = "color_tabs" /\ d.throwing

\* this.#addListeners() throws: observer.observe(null, ...) in the two files
\* that create a MutationObserver, before any listener is added
addListenersThrows(v, d) == v \in {"part_001", "color_tabs"} /\ ~d.tabStrip

\* new ColorTabs() returns, so that window.colorTabs is assigned and
\* clearInterval is reached
constructorReturns(v, d) == ~colorTabsThrows(v, d) /\ ~addListenersThrows(v, d)

\* new ColorTabs() at time at with the document d: #addStyle appends a
\* style element, #colorTabs starts a pass, #addListeners registers the
\* listeners when it is reached and does not throw
construct(v, d, m, at) ==
    LET reached == ~colorTabsThrows(v, d)
        returns == constructorReturns(v, d)
    IN  [constructed |-> m.constructed + 1,
         returned |-> m.returned + (IF returns THEN 1 ELSE 0),
         styles |-> m.styles + 1,
         passes |-> m.passes + 1,
         listeners |-> m.listeners
                          + (IF reached /\ ~addListenersThrows(v, d)
                             THEN 1 ELSE 0),
         firstAt |-> IF m.constructed = 0 THEN at ELSE m.firstAt,
         unseen |-> m.unseen \/ ~d.browser]

\* the script is loaded: setTimeout(() => {...}, 1000) is armed
StartInit ==
    /\ palImage = Row(<<>>)
    /\ palResult = NotRun
    /\ variant \in Variants
    /\ theme = <<>>
    /\ tabs = <<>>
    /\ chrome = <<>>
    /\ style = <<>>
    /\ browserStyle = <<>>
    /\ passes = <<>>
    /\ timers = 0
    /\ events = 0
    /\ last = <<>>
    /\ snap = <<>>
    /\ now = 0
    /\ poll = "delay"
    /\ dom \in DomStates
    /\ made = NoneMade

\* one poll period passes; an armed interval becomes due
Elapse ==
    /\ now' = Min(now + 1, MaxTime)
    /\ poll' = IF poll = "waiting" THEN "due" ELSE poll
    /\ UNCHANGED <<palVars, tabVars, dom, made>>

\* the document changes: Vivaldi renders or removes #browser, the tab strip
\* or a tab
DomChanged ==
    /\ dom' \in DomStates \ {dom}
    /\ UNCHANGED <<palVars, tabVars, now, poll, made>>

\* the setTimeout callback: var interval = setInterval(() => {...}, 100)
DelayFired ==
    /\ poll = "delay"
    /\ now >= StartDelay
    /\ poll' = "waiting"
    /\ UNCHANGED <<palVars, tabVars, now, dom, made>>

\* the setInterval callback: if #browser is there, new ColorTabs() and, when
\* the constructor returned, clearInterval(interval); an exception leaves
\* the callback with the interval still armed
PollTick ==
    /\ poll = "due"
    /\ IF dom.browser
       THEN /\ made.constructed < MaxInstances
            /\ made' = construct(variant, dom, made, now)
            /\ poll' = IF constructorReturns(variant, dom)
                       THEN "cleared" ELSE "waiting"
       ELSE /\ made' = made
            /\ poll' = "waiting"
    /\ UNCHANGED <<palVars, tabVars, now, dom>>

StartNext == Elapse \/ DomChanged \/ DelayFired \/ PollTick

SpecStartup == StartInit /\ [][StartNext]_vars

\* every timer callback that is due runs at some time, and time passes
FairStartup ==
    /\ SpecStartup
    /\ WF_vars(Elapse) /\ WF_vars(DelayFired) /\ WF_vars(PollTick)

\* C22: the constructor runs at most once, in a poll tick that found
\* #browser and not before the 1000 ms delay has elapsed, and once it has
\* run the interval is cleared, so that no later tick constructs a second
\* instance or registers the listeners twice.
ConstructedOnce ==
    /\ made.constructed <= 1
    /\ made.listeners <= 1
    /\ made.constructed >= 1 =>
          /\ made.firstAt >= StartDelay
          /\ ~made.unseen
          /\ poll = "cleared"

\* the part of C22 part_000 keeps
ConstructedOnce000 == variant = "part_000" => ConstructedOnce

\* the part of C22 every file keeps: no construction before the delay or
\* without #browser, the listeners registered at most once, and nothing
\* constructed once the interval is cleared
ConstructedWhenFound ==
    /\ made.listeners <= 1
    /\ made.returned <= 1
    /\ made.constructed >= 1 => (made.firstAt >= StartDelay /\ ~made.unseen)
    /\ poll = "cleared" <=> made.returned = 1

\* the liveness part of C22 in part_000: if #browser stays from some point
\* on, the constructor runs and returns
EventuallyConstructed000 ==
    (variant = "part_000" /\ <>[](dom.browser)) ~> (made.returned = 1)

\* a second constructor run after one that threw
ConstructedAgain ==
    /\ made.constructed >= 2
    /\ made.styles >= 2
    /\ poll # "delay"

=============================================================================
